---------------------------- MODULE Spec2Model ----------------------------
(***************************************************************************)
(* Parent-side orchestration engine of zoid                                *)
(* (src/src/component/parent/index.js, class ParentComponent).             *)
(*                                                                         *)
(* One ParentComponent instance is modelled.  ZalgoPromise settles and     *)
(* dispatches its handlers synchronously, so every chain of .then          *)
(* callbacks that needs no further external event runs inside the action   *)
(* that settles its first promise.  The external events (a host callback   *)
(* returning, a window operation completing, the remote side calling an    *)
(* export, a timer) are the actions.                                       *)
(*                                                                         *)
(* Operators of the form F(w, ...) take and return a record w holding the  *)
(* whole program state (see S); an action is Set(F(S, ...)).               *)
(***************************************************************************)
EXTENDS Naturals, Sequences, FiniteSets, TLC

VARIABLES
    context,        \* this.context: "iframe" | "popup"
    target,         \* render(element, target): "window" | "same" | "cross"
    props,          \* this.props: [timeout, onError]
    containerTemplate, \* this.component.containerTemplate is defined
    rendered,       \* render() has been called
    tasks,          \* the task graph of render(): name -> state
    onInit,         \* this.onInit: "pending" | "resolved" | "rejected"
    onInitErr,      \* the error this.onInit was rejected with
    childExports,   \* this.childExports is set
    errored,        \* this.errored
    errPc,          \* position of the first error() call
    firstErr,       \* the err of the error() call that set this.errored
    errResult,      \* how the promise returned by that error() call settled
    clean,          \* this.clean: the cleanup registry, in registration order
    cleaned,        \* this.clean has run all()
    container,      \* this.container is attached
    element,        \* this.element is set
    windowOpen,     \* the window opened by driver.open exists
    closeWatch,     \* the onCloseWindow listener of watchForClose is installed
    unloadWatch,    \* the 'unload' listener of watchForUnload is installed
    active,         \* this is in ParentComponent.activeComponents
    globalWindows,  \* global.windows: the uids registered
    globalProps,    \* global.props: the uids registered
    timer,          \* the setTimeout of runTimeout
    thisTimeout,    \* this.timeout is set
    initBeforeFire, \* initChild ran at a moment the timer had not fired
    call,           \* the memoized methods: method -> argument list -> position
    detect,         \* position of the onCloseWindow callback of watchForClose
    closeEvent,     \* event.triggerOnce(EVENTS.CLOSE) has been called
    check,          \* the checkClose(win) call in progress
    delegate,       \* the promise of the delegation message sent by delegate()
    renderP,        \* the promise returned by render() / renderTo()
    resizes,        \* the resize() calls: what each waits for and the overflow it saved
    overflow,       \* this.element.style.overflow
    size,           \* the dimensions the driver has applied
    userProps,      \* this.props: the values of the component props
    updates,        \* the updateProps() calls and what each sent to the remote side
    activeComponents, \* ParentComponent.activeComponents: this instance is 0, the others 1, 2, ...
    peers,          \* the other instances: the cleanup registry of each
    cache,          \* the cache of @memoized: method -> the argument list of the call that ran
    obs             \* observation log of host-visible calls

vars == << context, target, props, containerTemplate, rendered, tasks,
           onInit, onInitErr, childExports, errored, errPc, firstErr, errResult, clean,
           cleaned, detect, container, element, windowOpen,
           closeWatch, unloadWatch, active, globalWindows, globalProps,
           timer, thisTimeout, initBeforeFire, call, closeEvent, check, obs,
           delegate, renderP, resizes, overflow, size, userProps, updates,
           activeComponents, peers,
           cache >>

-----------------------------------------------------------------------------
(* Bounds *)

\* the number of error() calls the remote side makes through its export
MaxRemoteErrors == 1

\* the number of trigger(CLOSE) calls the remote side makes through its
\* export
MaxTriggers == 1

\* the number of calls of close, closeComponent and closeContainer made on
\* the instance by the host or through the close export
MaxCloseCalls == 2

\* the number of checkClose() calls the remote side makes
MaxCheckCloses == 1

\* resize() calls made on one instance
MaxResizes == 2

\* updateProps() calls made on one instance
MaxUpdates == 2

\* the instances constructed besides the one followed in detail
MaxPeers == 2

\* ParentComponent.destroyAll() calls
MaxDestroyAlls == 1

-----------------------------------------------------------------------------
(* ParentComponent.activeComponents *)

\* activeComponents.indexOf(id), 0 standing for the -1 of a missing one
IndexOf(list, id) ==
    IF \E i \in 1..Len(list) : list[i] = id
      THEN CHOOSE i \in 1..Len(list) :
             list[i] = id /\ \A j \in 1..(i - 1) : list[j] # id
      ELSE 0

\* a splice that removes the head of the list whatever the instance
SpliceHead(list, id) ==
    IF list = << >> THEN list ELSE Tail(list)

\* activeComponents.splice(activeComponents.indexOf(id), 1): the entry of
\* the instance is removed; with the index -1 of a missing instance the
\* splice removes the last entry
Splice(list, id) ==
    LET i == IF IndexOf(list, id) = 0 THEN Len(list) ELSE IndexOf(list, id)
    IN  IF list = << >>
          THEN list
          ELSE SubSeq(list, 1, i - 1) \o SubSeq(list, i + 1, Len(list))

-----------------------------------------------------------------------------
(* The program state as one record *)

S ==
    [ rendered |-> rendered, tasks |-> tasks, onInit |-> onInit,
      onInitErr |-> onInitErr, childExports |-> childExports,
      errored |-> errored, errPc |-> errPc, firstErr |-> firstErr,
      errResult |-> errResult, clean |-> clean, cleaned |-> cleaned,
      detect |-> detect,
      container |-> container,
      element |-> element, call |-> call, closeEvent |-> closeEvent,
      check |-> check,
      windowOpen |-> windowOpen, closeWatch |-> closeWatch,
      unloadWatch |-> unloadWatch, active |-> active,
      globalWindows |-> globalWindows, globalProps |-> globalProps,
      timer |-> timer, thisTimeout |-> thisTimeout,
      initBeforeFire |-> initBeforeFire, obs |-> obs,
      delegate |-> delegate,
      renderP |-> renderP,
      resizes |-> resizes,
      overflow |-> overflow,
      size |-> size,
      userProps |-> userProps,
      updates |-> updates,
      activeComponents |-> activeComponents,
      peers |-> peers,
      cache |-> cache ]

\* the state is w
IsState(w) ==
    /\ rendered = w.rendered
    /\ tasks = w.tasks
    /\ onInit = w.onInit
    /\ onInitErr = w.onInitErr
    /\ childExports = w.childExports
    /\ errored = w.errored
    /\ errPc = w.errPc
    /\ firstErr = w.firstErr
    /\ errResult = w.errResult
    /\ clean = w.clean
    /\ cleaned = w.cleaned
    /\ detect = w.detect
    /\ container = w.container
    /\ element = w.element
    /\ windowOpen = w.windowOpen
    /\ closeWatch = w.closeWatch
    /\ unloadWatch = w.unloadWatch
    /\ active = w.active
    /\ globalWindows = w.globalWindows
    /\ globalProps = w.globalProps
    /\ timer = w.timer
    /\ thisTimeout = w.thisTimeout
    /\ initBeforeFire = w.initBeforeFire
    /\ call = w.call
    /\ closeEvent = w.closeEvent
    /\ delegate = w.delegate
    /\ renderP = w.renderP
    /\ resizes = w.resizes
    /\ overflow = w.overflow
    /\ size = w.size
    /\ userProps = w.userProps
    /\ updates = w.updates
    /\ activeComponents = w.activeComponents
    /\ peers = w.peers
    /\ cache = w.cache
    /\ check = w.check
    /\ obs = w.obs

\* the next state is w
Set(w) ==
    /\ rendered' = w.rendered
    /\ tasks' = w.tasks
    /\ onInit' = w.onInit
    /\ onInitErr' = w.onInitErr
    /\ childExports' = w.childExports
    /\ errored' = w.errored
    /\ errPc' = w.errPc
    /\ firstErr' = w.firstErr
    /\ errResult' = w.errResult
    /\ clean' = w.clean
    /\ cleaned' = w.cleaned
    /\ detect' = w.detect
    /\ container' = w.container
    /\ element' = w.element
    /\ call' = w.call
    /\ closeEvent' = w.closeEvent
    /\ delegate' = w.delegate
    /\ renderP' = w.renderP
    /\ resizes' = w.resizes
    /\ overflow' = w.overflow
    /\ size' = w.size
    /\ userProps' = w.userProps
    /\ updates' = w.updates
    /\ activeComponents' = w.activeComponents
    /\ peers' = w.peers
    /\ cache' = w.cache
    /\ check' = w.check
    /\ windowOpen' = w.windowOpen
    /\ closeWatch' = w.closeWatch
    /\ unloadWatch' = w.unloadWatch
    /\ active' = w.active
    /\ globalWindows' = w.globalWindows
    /\ globalProps' = w.globalProps
    /\ timer' = w.timer
    /\ thisTimeout' = w.thisTimeout
    /\ initBeforeFire' = w.initBeforeFire
    /\ obs' = w.obs
    /\ UNCHANGED << context, target, props, containerTemplate >>

-----------------------------------------------------------------------------
(* Cleanup registry: cleanup(this) of ../../lib *)

\* clean.hasTasks()
HasTasks(w) ==
    Len(w.clean) > 0

HasTag(w, tag) ==
    \E i \in 1..Len(w.clean) : w.clean[i] = tag

\* the registered methods, by the tag (or, for anonymous ones, the place)
\* they were registered under
RunActions(w, tags) ==
    [w EXCEPT
       !.active = IF "activeComponent" \in tags THEN FALSE ELSE @,
       !.activeComponents = IF "activeComponent" \in tags THEN Splice(@, 0)
                                                          ELSE @,
       !.unloadWatch = IF "destroyUnloadWindowListener" \in tags THEN FALSE ELSE @,
       !.closeWatch = IF "destroyCloseWindowListener" \in tags THEN FALSE ELSE @,
       !.container = IF "destroyContainerTemplate" \in tags THEN FALSE ELSE @,
       !.windowOpen = IF "destroyWindow" \in tags THEN FALSE ELSE @,
       !.globalWindows = IF "globalWindows" \in tags THEN @ \ {"refUid"} ELSE @,
       !.globalProps = IF "globalProps" \in tags THEN @ \ {"propsUid"} ELSE @,
       !.timer = IF "timeout" \in tags /\ @ = "armed" THEN "cleared" ELSE @,
       !.thisTimeout = IF "timeout" \in tags THEN FALSE ELSE @]

\* clean.register(name?, method): appended in registration order, also on
\* a registry that has run all()
Register(w, tag) ==
    [w EXCEPT !.clean = Append(@, tag),
              !.obs.lateRegs = IF w.cleaned THEN @ \cup {tag} ELSE @]

\* clean.run(name): runs and removes the entries registered under name
CleanRun(w, tag) ==
    LET w1 == RunActions(w, IF HasTag(w, tag) THEN {tag} ELSE {})
    IN  [w1 EXCEPT !.clean = SelectSeq(@, LAMBDA x : x # tag)]

\* clean.all(): runs every remaining entry and clears the registry
CleanAll(w) ==
    LET w1 == RunActions(w, {w.clean[i] : i \in 1..Len(w.clean)})
    IN  [w1 EXCEPT !.clean = << >>, !.cleaned = TRUE, !.obs.allRuns = @ + 1,
                   !.obs.allOrder = @ \o w.clean]

-----------------------------------------------------------------------------
(* destroy and error *)

\* destroy() without the hasTasks guard: every call runs clean.all()
DestroyUnguarded(w) ==
    CleanAll(w)

\* destroy(): clean.all() when the registry has tasks
Destroy(w) ==
    IF HasTasks(w) THEN CleanAll(w) ELSE w

\* error(err) without the errored guard: every call handles its error
ErrorOpUnguarded(w, e) ==
    LET w1 == [w EXCEPT !.errored = TRUE, !.firstErr = e]
        w2 == IF w1.onInit = "pending"
                THEN [w1 EXCEPT !.onInit = "rejected", !.onInitErr = e]
                ELSE w1
        w3 == Destroy(w2)
    IN  [w3 EXCEPT !.errPc = "teardown", !.obs.errDestroys = @ + 1,
                   !.obs.errRanAll = HasTasks(w2)]

\* error(err) that goes on to notify without having run destroy()
ErrorOpNoDestroy(w, e) ==
    IF w.errored
      THEN [w EXCEPT !.obs.lateErr = @ \cup {e}]
      ELSE LET w1 == [w EXCEPT !.errored = TRUE, !.firstErr = e]
               w2 == IF w1.onInit = "pending"
                       THEN [w1 EXCEPT !.onInit = "rejected",
                                       !.onInitErr = e,
                                       !.obs.lateErr = @ \cup {e}]
                       ELSE w1
           IN  [w2 EXCEPT !.errPc = "teardown",
                          !.obs.errDestroys = @ + 1]

\* error(err) up to the call of destroy(): a no-op once errored; otherwise
\* errored is set, onInit rejected (a pending onInit dispatches the
\* constructor's catch handler, which calls error(err) again) and destroy()
\* called, which runs clean.all() when the registry has tasks.  The promise
\* of destroy() settles in ErrorNotify.
ErrorOp(w, e) ==
    IF w.errored
      THEN [w EXCEPT !.obs.lateErr = @ \cup {e}]
      ELSE LET w1 == [w EXCEPT !.errored = TRUE, !.firstErr = e]
               w2 == IF w1.onInit = "pending"
                       THEN [w1 EXCEPT !.onInit = "rejected",
                                       !.onInitErr = e,
                                       !.obs.lateErr = @ \cup {e}]
                       ELSE w1
               w3 == Destroy(w2)
           IN  [w3 EXCEPT !.errPc = "teardown",
                          !.obs.errDestroys = @ + 1,
                          !.obs.errRanAll = HasTasks(w2)]

\* this.onInit.reject(err) as called by tryInit: a settled promise ignores
\* it; a pending one is rejected and dispatches the constructor's catch
\* handler, this.error(err, props)
OnInitReject(w, e) ==
    IF w.onInit = "pending"
      THEN ErrorOp([w EXCEPT !.onInit = "rejected", !.onInitErr = e], e)
      ELSE w

-----------------------------------------------------------------------------
(* The task graph of render() *)

TaskOrder ==
    << "onRender", "getDomain", "elementReady", "openContainer", "open",
       "awaitWindow", "showContainer", "setWindowName", "watchForClose",
       "prerender", "showComponent", "openBridge", "buildUrl", "loadUrl",
       "switchPrerender", "runTimeout" >>

Tasks ==
    {TaskOrder[i] : i \in 1..Len(TaskOrder)}

\* tasks whose body completes inside the call that starts them
SyncTasks ==
    {"openContainer", "watchForClose", "runTimeout"}

\* this.driver.renderedIntoContainer
RenderedIntoContainer ==
    context = "iframe"

\* the graph with setWindowName chained on open alone
DepsNameOnOpen(t) ==
    CASE t = "openContainer" -> {"elementReady"}
      [] t = "open" -> IF RenderedIntoContainer THEN {"openContainer"} ELSE {}
      [] t = "awaitWindow" -> {"open"}
      [] t = "showContainer" -> {"openContainer"}
      [] t = "setWindowName" -> {"open"}
      [] t = "watchForClose" -> {"awaitWindow", "setWindowName"}
      [] t = "prerender" -> {"open", "openContainer"}
      [] t = "showComponent" -> {"prerender"}
      [] t = "openBridge" -> {"awaitWindow", "getDomain", "setWindowName"}
      [] t = "loadUrl" -> {"open", "buildUrl", "setWindowName"}
      [] t = "switchPrerender" -> {"prerender"}
      [] t = "runTimeout" -> {"loadUrl"}
      [] OTHER -> {}

\* the graph with loadUrl chained on open and buildUrl alone
DepsUrlUnnamed(t) ==
    CASE t = "openContainer" -> {"elementReady"}
      [] t = "open" -> IF RenderedIntoContainer THEN {"openContainer"} ELSE {}
      [] t = "awaitWindow" -> {"open"}
      [] t = "showContainer" -> {"openContainer"}
      [] t = "setWindowName" -> {"open", "getDomain"}
      [] t = "watchForClose" -> {"awaitWindow", "setWindowName"}
      [] t = "prerender" -> {"open", "openContainer"}
      [] t = "showComponent" -> {"prerender"}
      [] t = "openBridge" -> {"awaitWindow", "getDomain", "setWindowName"}
      [] t = "loadUrl" -> {"open", "buildUrl"}
      [] t = "switchPrerender" -> {"prerender"}
      [] t = "runTimeout" -> {"loadUrl"}
      [] OTHER -> {}

\* the promises each task is chained on (this.onInit apart)
Deps(t) ==
    CASE t = "openContainer" -> {"elementReady"}
      [] t = "open" -> IF RenderedIntoContainer THEN {"openContainer"} ELSE {}
      [] t = "awaitWindow" -> {"open"}
      [] t = "showContainer" -> {"openContainer"}
      [] t = "setWindowName" -> {"open", "getDomain"}
      [] t = "watchForClose" -> {"awaitWindow", "setWindowName"}
      [] t = "prerender" -> {"open", "openContainer"}
      [] t = "showComponent" -> {"prerender"}
      [] t = "openBridge" -> {"awaitWindow", "getDomain", "setWindowName"}
      [] t = "loadUrl" -> {"open", "buildUrl", "setWindowName"}
      [] t = "switchPrerender" -> {"prerender"}
      [] t = "runTimeout" -> {"loadUrl"}
      [] OTHER -> {}

\* every promise the task is chained on has resolved
DepsResolved(w, t) ==
    /\ \A d \in Deps(t) : w.tasks[d] = "ok"
    /\ t = "switchPrerender" => w.onInit = "resolved"

\* one of them is rejected: the task's promise rejects, its body never runs
DepsRejected(w, t) ==
    \/ \E d \in Deps(t) : w.tasks[d] \in {"fail", "skip"}
    \/ t = "switchPrerender" /\ w.onInit = "rejected"

\* isSameDomain(target)
IsSameDomain(tg) ==
    tg \in {"window", "same"}

\* getComponentParentRef(renderToWindow)
GetComponentParentRef(w) ==
    IF context = "popup" \/ target = "window"
      THEN w
      ELSE Register([w EXCEPT !.globalWindows = @ \cup {"refUid"}],
                    "globalWindows")

\* buildChildWindowName({ proxyWin, domain, target })
BuildChildWindowName(w) ==
    LET w1 == GetComponentParentRef(w)
    IN  IF IsSameDomain(target)
          THEN w1
          ELSE Register([w1 EXCEPT !.globalProps = @ \cup {"propsUid"}],
                        "globalProps")

\* openContainer(element, { focus }); elFound: getElement(element) found it
OpenContainer(w, elFound) ==
    IF ~elFound
      THEN [w EXCEPT !.tasks["openContainer"] = "fail"]
    ELSE IF ~containerTemplate
      THEN [w EXCEPT !.tasks["openContainer"] =
                         IF RenderedIntoContainer THEN "fail" ELSE "ok"]
      ELSE Register([w EXCEPT !.tasks["openContainer"] = "ok",
                              !.container = TRUE,
                              !.element = @ \/ RenderedIntoContainer],
                    "destroyContainerTemplate")

\* open(): this.driver.open.call(this)
Open(w) ==
    Register([w EXCEPT !.tasks["open"] = "run", !.windowOpen = TRUE],
             "destroyWindow")

\* watchForClose(win)
WatchForClose(w) ==
    Register([w EXCEPT !.tasks["watchForClose"] = "ok", !.closeWatch = TRUE],
             "destroyCloseWindowListener")

\* runTimeout that starts the timer whatever props.timeout is
RunTimeoutAlways(w) ==
    Register([w EXCEPT !.tasks["runTimeout"] = "ok", !.timer = "armed",
                       !.thisTimeout = TRUE],
             "timeout")

\* runTimeout()
RunTimeout(w) ==
    LET w1 == [w EXCEPT !.tasks["runTimeout"] = "ok"]
    IN  IF props.timeout > 0
          THEN Register([w1 EXCEPT !.timer = "armed", !.thisTimeout = TRUE],
                        "timeout")
          ELSE w1

\* this.driver.delegateOverrides: the methods of the render graph the
\* driver marks DELEGATE.CALL_DELEGATE
DelegateOverrides ==
    IF context = "iframe"
      THEN {"elementReady", "openContainer", "open", "showContainer",
            "setWindowName", "prerender", "showComponent", "loadUrl",
            "switchPrerender"}
      ELSE {"elementReady", "openContainer", "showContainer",
            "showComponent"}

\* delegate(target) has replaced this[t] by the function that forwards the
\* call to the override of the delegate
Stubbed(w, t) ==
    w.delegate # "none" /\ t \in DelegateOverrides

\* overridenFunction() that calls the override without waiting for the
\* delegation
StubCallEager(w, t) ==
    [w EXCEPT !.tasks[t] = "run", !.obs.overridden = @ \cup {t}]

\* overridenFunction(): delegate.then(data => data.overrides[key](...));
\* rejected at once when the delegation has failed
StubCall(w, t) ==
    CASE w.delegate = "rejected" ->
           [w EXCEPT !.tasks[t] = "fail", !.obs.stubErrors = @ \cup {t}]
      [] w.delegate = "resolved" ->
           [w EXCEPT !.tasks[t] = "run", !.obs.overridden = @ \cup {t}]
      [] OTHER -> [w EXCEPT !.tasks[t] = "run"]

\* the body of task t starts, all its dependencies having resolved
BeginTask(w, t, elFound) ==
    CASE Stubbed(w, t) /\ t = "setWindowName" ->
           StubCall(BuildChildWindowName(w), t)
      [] Stubbed(w, t) /\ t # "setWindowName" -> StubCall(w, t)
      [] ~Stubbed(w, t) /\ t = "openContainer" -> OpenContainer(w, elFound)
      [] ~Stubbed(w, t) /\ t = "open" -> Open(w)
      [] ~Stubbed(w, t) /\ t = "setWindowName" ->
           BuildChildWindowName([w EXCEPT !.tasks["setWindowName"] = "run"])
      [] OTHER ->
           CASE t = "watchForClose" -> WatchForClose(w)
             [] t = "runTimeout" -> RunTimeout(w)
             [] OTHER -> [w EXCEPT !.tasks[t] = "run"]

ReadyTasks(w) ==
    {i \in 1..Len(TaskOrder) :
        /\ w.tasks[TaskOrder[i]] = "idle"
        /\ DepsResolved(w, TaskOrder[i]) \/ DepsRejected(w, TaskOrder[i])}

Least(I) ==
    CHOOSE i \in I : \A j \in I : i <= j

\* the synchronous dispatch of the .then handlers of render(): every task
\* whose dependencies have all resolved starts, every task with a rejected
\* dependency is rejected, until nothing more can start
RECURSIVE TaskStep(_, _)
TaskStepFrom(w, elFound) ==
    IF ~w.rendered \/ ReadyTasks(w) = {}
      THEN w
      ELSE LET t == TaskOrder[Least(ReadyTasks(w))]
           IN  IF DepsRejected(w, t)
                 THEN TaskStep([w EXCEPT !.tasks[t] = "skip"], elFound)
                 ELSE TaskStep(BeginTask(w, t, elFound), elFound)

\* (the state is evaluated once, as the element of a set)
TaskStep(w, elFound) ==
    CHOOSE r \in {TaskStepFrom(x, elFound) : x \in {w}} : TRUE

\* ZalgoPromise.hash(tasks) is rejected
HashRejected(w) ==
    \E t \in Tasks : w.tasks[t] \in {"fail", "skip"}

\* ZalgoPromise.hash(tasks) is resolved
HashResolved(w) ==
    \A t \in Tasks : w.tasks[t] = "ok"

\* tryInit(method): a rejected hash rejects this.onInit
\* (the state is evaluated once, as the element of a set)
TryInit(w) ==
    CHOOSE r \in
      { IF HashRejected(x) THEN OnInitReject(x, "render") ELSE x :
          x \in {w} } : TRUE

\* the tryInit of renderTo once its method has thrown err, or the render()
\* it returned has been rejected with err: this.onInit.reject(err), and the
\* promise renderTo returned takes the state of this.onInit
RenderToCatch(w, err) ==
    LET w1 == OnInitReject(w, err)
    IN  [w1 EXCEPT !.renderP =
                       IF w1.onInit = "resolved" THEN "resolved"
                                                 ELSE "rejected"]

\* the promise of render() is rejected with err: the caller has it, or
\* renderTo, which called render(), handles it in its own tryInit
RenderRejected(w, err) ==
    IF w.obs.renderTo # << >>
      THEN RenderToCatch(w, err)
      ELSE [w EXCEPT !.renderP = "rejected"]

\* render() after tryInit: once the hash has settled, .then(() => this.onInit)
\* takes the state of this.onInit, and props.onEnter() is called if that is
\* resolved
\* (the state is evaluated once, as the element of a set)
RenderThen(w) ==
    CHOOSE r \in
      { IF x.renderP # "pending" \/ ~(HashRejected(x) \/ HashResolved(x))
          THEN x
          ELSE IF x.onInit = "resolved"
            THEN [x EXCEPT !.renderP = "onEnter", !.obs.onEnter = @ + 1]
            ELSE RenderRejected(x, "render") : x \in {w} } : TRUE

\* everything that runs synchronously once a promise has settled
\* the props of the component: one sent to the remote side, one marked
\* sendToChild false, one the component does not declare
PropKeys ==
    {"label", "secret", "extra"}

\* this.component.getProp(key) is absent or its sendToChild is not false
SendToChild(k) ==
    k # "secret"

\* getPropsForChild() that returns every prop
GetPropsForChildAll(w) ==
    w.userProps

\* getPropsForChild()
GetPropsForChild(w) ==
    [k \in {x \in PropKeys : SendToChild(x)} |-> w.userProps[k]]

\* the handlers that updateProps chained on this.onInit, run once it has
\* settled (the state is evaluated once, as the element of a set)
UpdatePropsThen(w) ==
    CHOOSE r \in
      { IF x.onInit = "pending"
          THEN x
          ELSE [x EXCEPT !.updates =
                  [i \in DOMAIN @ |->
                     IF @[i].pc # "waiting" THEN @[i]
                     ELSE IF x.onInit = "rejected"
                       THEN [@[i] EXCEPT !.pc = "rejected"]
                     ELSE IF x.childExports
                       THEN [@[i] EXCEPT !.pc = "sent",
                                         !.sent = GetPropsForChild(x)]
                       ELSE [@[i] EXCEPT !.pc = "noExports"]]] : x \in {w} } :
      TRUE

Settle(w, elFound) ==
    UpdatePropsThen(TaskStep(RenderThen(TryInit(TaskStep(w, elFound))), TRUE))

\* getDomain(): this.component.getDomain(null, env) when it gives a domain,
\* which resolves the promise at once; else the domain of the url the
\* component builds, which takes time and may fail
GetDomain(w, dom) ==
    [w EXCEPT !.tasks["getDomain"] = IF dom = "none" THEN "run" ELSE "ok"]

\* render(element, target): the graph is built, the tasks without
\* dependencies start at once; dom is what this.component.getDomain(null,
\* env) gives
RenderOp(w, dom) ==
    Settle(GetDomain([w EXCEPT !.rendered = TRUE, !.renderP = "pending"],
                     dom),
           TRUE)

-----------------------------------------------------------------------------
(* Initial state: the instance as its constructor leaves it *)

\* props.timeout as configured by the host (0: none)
Timeouts ==
    {0, 500}

\* the tasks that wait for an external event
AsyncTasks ==
    Tasks \ SyncTasks

\* the tasks whose external operation is let fail (openContainer, which is
\* synchronous, fails when its element is not found)
FailTasks ==
    {"getDomain", "elementReady", "open", "loadUrl", "showComponent",
     "switchPrerender"}

\* CLOSE_REASONS.PARENT_CALL, the default reason
ParentCall ==
    "PARENT_CALL"

\* the argument list of a call made without arguments
NoArgs ==
    "[]"

\* the argument lists the memoized methods are called with: none, or a
\* reason
Args ==
    {NoArgs, ParentCall, "CHILD_CALL", "USER_CLOSED"}

\* the argument lists close, closeComponent and closeContainer are called
\* with by the host or through the close export
CallArgs ==
    {NoArgs, "CHILD_CALL"}

\* reason = CLOSE_REASONS.PARENT_CALL: the default of the parameter of
\* close, closeContainer and closeComponent
ReasonOf(k) ==
    IF k = NoArgs THEN ParentCall ELSE k

\* the memoized methods (@memoized)
Memoized ==
    {"close", "closeContainer", "destroyContainer", "closeComponent",
     "hideContainer", "hideComponent"}

\* the instance as the constructor leaves it: setProps,
\* registerActiveComponent, watchForUnload
Constructed ==
    [ rendered |-> FALSE,
      tasks |-> [t \in Tasks |-> "idle"],
      onInit |-> "pending",
      onInitErr |-> "none",
      childExports |-> FALSE,
      errored |-> FALSE,
      errPc |-> "none",
      firstErr |-> "none",
      errResult |-> "none",
      clean |-> << "activeComponent", "destroyUnloadWindowListener" >>,
      cleaned |-> FALSE,
      detect |-> "none",
      container |-> FALSE,
      element |-> FALSE,
      windowOpen |-> FALSE,
      closeWatch |-> FALSE,
      unloadWatch |-> TRUE,
      active |-> TRUE,
      globalWindows |-> {},
      globalProps |-> {},
      timer |-> "none",
      thisTimeout |-> FALSE,
      initBeforeFire |-> FALSE,
      call |-> [m \in Memoized |-> [k \in Args |-> "none"]],
      delegate |-> "none",
      renderP |-> "none",
      resizes |-> << >>,
      overflow |-> "visible",
      size |-> "initial",
      userProps |-> [k \in PropKeys |-> "initial"],
      updates |-> << >>,
      activeComponents |-> << 0 >>,
      peers |-> [i \in 1..MaxPeers |->
                   [made |-> FALSE, valid |-> FALSE, clean |-> << >>,
                    cleaned |-> FALSE]],
      cache |-> [m \in Memoized |-> "none"],
      closeEvent |-> FALSE,
      check |-> [pc |-> "none", first |-> "none", second |-> "none",
                 delayed |-> FALSE, userClose |-> "none"],
      obs |-> [allRuns |-> 0, lateRegs |-> {}, errDestroys |-> 0,
               errRanAll |-> FALSE,
               lateErr |-> {}, onCloseCalls |-> << >>, onEnter |-> 0,
               renderTo |-> << >>,
               onError |-> << >>, remoteErrors |-> 0,
               closeCalls |-> 0, otherCalls |-> 0, closeRuns |-> 0,
               checkCloses |-> 0,
               closeSteps |-> [k \in Args |-> << >>],
               closeAt |-> [k \in Args |-> 0], closeEvents |-> 0,
               closeTriggers |-> 0,
               detectThrew |-> FALSE, unloads |-> 0,
               allOrder |-> << >>, overridden |-> {},
               stubErrors |-> {}, destroyAll |-> "none",
               destroyAlls |-> 0] ]

\* the instances render is studied on: a popup goes to a window of this
\* domain as it goes to this window; the host without an onError prop and
\* the component without a container template render to this window; a
\* timeout is configured on an iframe rendered to this window
Init ==
    /\ context \in {"iframe", "popup"}
    /\ target \in {"window", "same", "cross"}
    /\ props \in [timeout : Timeouts, onError : BOOLEAN]
    /\ containerTemplate \in BOOLEAN
    /\ context = "popup" => target # "same"
    /\ ~props.onError => target = "window"
    /\ ~containerTemplate => target = "window" /\ props.timeout = 0
    /\ props.timeout > 0 => context = "iframe" /\ target = "window"
    /\ IsState(Constructed)

-----------------------------------------------------------------------------
(* Actions *)

\* render(element, target) of a component whose domain comes from the url
\* it builds: the graph is built; the tasks without dependencies start at
\* once
Render ==
    /\ ~rendered
    /\ Set(RenderOp(S, "none"))

\* props.onEnter() settles: it returned, or it threw
OnEnterReturns(ok) ==
    /\ renderP = "onEnter"
    /\ Set(IF ok THEN [S EXCEPT !.renderP = "resolved"]
                 ELSE RenderRejected(S, "onEnter"))

\* the external operation task t waits for completes (ok) or fails;
\* elFound is what getElement(element) finds when openContainer runs
FinishTask(t, ok, elFound) ==
    /\ tasks[t] = "run"
    /\ Stubbed(S, t) => delegate = "resolved"
    /\ ~elFound => t = "elementReady" /\ ok
    /\ ~ok => t \in FailTasks
    /\ Set(Settle([S EXCEPT !.tasks[t] = IF ok THEN "ok" ELSE "fail"],
                  elFound))

\* initChild(childExports): the remote side calls the init export
InitChildOp(w) ==
    LET w1 == [w EXCEPT !.childExports = TRUE,
                        !.onInit = IF @ = "pending" THEN "resolved" ELSE @,
                        !.initBeforeFire = @ \/ (w.timer # "fired")]
    IN  IF w1.thisTimeout
          THEN [w1 EXCEPT !.timer = IF @ = "armed" THEN "cleared" ELSE @]
          ELSE w1

\* the remote side exists once the url is being loaded into the named window
InitChild ==
    /\ tasks["loadUrl"] \in {"run", "ok"}
    /\ Stubbed(S, "loadUrl") => delegate = "resolved"
    /\ ~childExports
    /\ Set(Settle(InitChildOp(S), TRUE))

\* the callback given to setTimeout in runTimeout
TimerFire ==
    /\ timer = "armed"
    /\ Set(Settle(ErrorOp([S EXCEPT !.timer = "fired"], "timeout"), TRUE))

\* the remote side calls the error export of buildParentExports
RemoteError ==
    /\ tasks["loadUrl"] \in {"run", "ok"}
    /\ obs.remoteErrors < MaxRemoteErrors
    /\ Set(Settle(ErrorOp([S EXCEPT !.obs.remoteErrors = @ + 1], "remote"),
                  TRUE))

\* error(err) once the promise of destroy() has settled.  When it resolved
\* (destroyed): props.onError(err) is called if supplied and error() waits
\* for what it returns; with no onError the last handler rethrows err.  When
\* it rejected, a cleanup action having failed: the handler that calls
\* onError is skipped, the catch wraps the failure, and the last handler is
\* skipped as well
ErrorNotifyOp(w, destroyed) ==
    IF ~destroyed
      THEN [w EXCEPT !.errPc = "done", !.errResult = "wrapped"]
      ELSE IF props.onError
        THEN [w EXCEPT !.errPc = "onError",
                       !.obs.onError =
                           Append(@, [err |-> w.firstErr,
                                      result |-> "pending"])]
        ELSE [w EXCEPT !.errPc = "done", !.errResult = "original"]

\* the promise of the destroy() that error() called settles; it can reject
\* only when it ran clean.all()
ErrorNotify(destroyed) ==
    /\ errPc = "teardown"
    /\ ~destroyed => obs.errRanAll
    /\ Set(ErrorNotifyOp(S, destroyed))

\* error(err) once props.onError(err) has settled: error() resolves when it
\* returned; when it threw or rejected, the catch rethrows an error that
\* wraps err and the failure
OnErrorReturnsOp(w, ok) ==
    [w EXCEPT !.errPc = "done",
              !.obs.onError[Len(w.obs.onError)].result = IF ok THEN "returned" ELSE "threw",
              !.errResult = IF ok THEN "resolved" ELSE "wrapped"]

\* the host's onError callback settles: it returned, or it threw
OnErrorReturns(ok) ==
    /\ errPc = "onError"
    /\ Set(OnErrorReturnsOp(S, ok))

\* the windows renderTo is given: none, this window, a window of the same
\* domain, a window of another domain, a window under another top window
RenderToTargets ==
    {"none", "window", "same", "cross", "foreign"}

\* this.component.getDomain(null, this.props.env) against getDomain(): the
\* origin of this window, another domain, or none
Domains ==
    {"origin", "other", "none"}

\* isSameTopWindow(window, target)
IsSameTopWindow(tg) ==
    tg # "foreign"

\* checkAllowRemoteRender(target) without the isSameTopWindow test
CheckAllowRemoteRenderAnyTop(tg, dom) ==
    IF tg = "none" THEN "mustPassWindow"
    ELSE IF IsSameDomain(tg) THEN "ok"
    ELSE IF dom = "none" THEN "noDomain"
    ELSE IF dom = "origin" THEN "ok"
    ELSE "remoteDomain"

\* checkAllowRemoteRender(target): "ok", or the error it throws
CheckAllowRemoteRender(tg, dom) ==
    IF tg = "none" THEN "mustPassWindow"
    ELSE IF ~IsSameTopWindow(tg) THEN "adjacentFrame"
    ELSE IF IsSameDomain(tg) THEN "ok"
    ELSE IF dom = "none" THEN "noDomain"
    ELSE IF dom = "origin" THEN "ok"
    ELSE "remoteDomain"

\* delegate(target): the delegation message is sent and the methods the
\* driver marks are replaced
Delegate(w) ==
    [w EXCEPT !.delegate = "pending"]

\* renderTo(target, element), its method run by tryInit; elOk: element is
\* absent or a string.  A refusal rejects this.onInit, and with it the
\* updateProps calls that wait for it
RenderToOp(w, elOk, dom) ==
    LET w0 == [w EXCEPT !.obs.renderTo =
                            Append(@, [elOk |-> elOk, dom |-> dom])]
        allow == CheckAllowRemoteRender(target, dom)
    IN  IF target = "window" THEN RenderOp(w0, dom)
        ELSE IF ~elOk
          THEN UpdatePropsThen(RenderToCatch(w0, "elementSelector"))
        ELSE IF allow # "ok"
          THEN UpdatePropsThen(RenderToCatch(w0, allow))
        ELSE RenderOp(Delegate(w0), dom)

RenderTo(elOk, dom) ==
    /\ ~rendered
    /\ obs.renderTo = << >>
    /\ Set(RenderToOp(S, elOk, dom))

\* the stubs in progress are rejected with the delegation, each with the
\* error 'Unable to delegate rendering'
FailStubs(w) ==
    LET F == {t \in Tasks : Stubbed(w, t) /\ w.tasks[t] = "run"}
    IN  [w EXCEPT !.tasks = [t \in Tasks |->
                               IF t \in F THEN "fail" ELSE w.tasks[t]],
                  !.obs.stubErrors = @ \cup F]

\* the stubs in progress call the override of their name
InvokeOverrides(w) ==
    LET R == {t \in Tasks : Stubbed(w, t) /\ w.tasks[t] = "run"}
    IN  [w EXCEPT !.obs.overridden = @ \cup R]

\* the delegate answers the delegation message: data.destroy is registered;
\* or the message fails
DelegateReplies(ok) ==
    /\ delegate = "pending"
    /\ Set(Settle(
          IF ok THEN InvokeOverrides(
                       Register([S EXCEPT !.delegate = "resolved"],
                                "delegateDestroy"))
                ELSE FailStubs([S EXCEPT !.delegate = "rejected"]),
          TRUE))

Next ==
    \/ Render
    \/ \E t \in AsyncTasks, ok \in BOOLEAN, elFound \in BOOLEAN :
          FinishTask(t, ok, elFound)
    \/ InitChild
    \/ TimerFire
    \/ RemoteError
    \/ \E destroyed \in BOOLEAN : ErrorNotify(destroyed)
    \/ \E ok \in BOOLEAN : OnErrorReturns(ok)
    \/ \E ok \in BOOLEAN : OnEnterReturns(ok)

Spec ==
    Init /\ [][Next]_vars

\* the callback given to setTimeout runs: the step that takes the timer
\* from armed to fired (the TimerFire steps, and no others)
TimerFires ==
    timer = "armed" /\ timer' = "fired"

\* error() goes on after destroy(): the step that takes its position on
\* from teardown (the ErrorNotify steps, and no others)
ErrorNotifies ==
    errPc = "teardown" /\ errPc' \in {"onError", "done"}

\* a timer set with setTimeout and not cleared fires, and the promise of the
\* destroy() that error() called settles
FairSpec ==
    Init /\ [][Next]_vars /\ WF_timer(TimerFires) /\ WF_errPc(ErrorNotifies)

\* the windows and component domains renderTo is studied on
InitRenderTo ==
    /\ context \in {"iframe", "popup"}
    /\ target \in RenderToTargets
    /\ props = [timeout |-> 0, onError |-> TRUE]
    /\ containerTemplate \in BOOLEAN
    /\ IsState(Constructed)

NextRenderTo ==
    \/ \E elOk \in BOOLEAN, dom \in Domains : RenderTo(elOk, dom)
    \/ \E ok \in BOOLEAN : DelegateReplies(ok)
    \/ \E t \in Tasks, ok \in BOOLEAN, elFound \in BOOLEAN :
          FinishTask(t, ok, elFound)
    \/ InitChild
    \/ \E destroyed \in BOOLEAN : ErrorNotify(destroyed)
    \/ \E ok \in BOOLEAN : OnErrorReturns(ok)
    \/ \E ok \in BOOLEAN : OnEnterReturns(ok)

SpecRenderTo ==
    InitRenderTo /\ [][NextRenderTo]_vars

-----------------------------------------------------------------------------
(* close, closeContainer, closeComponent, checkClose *)

\* the names event.trigger is called with
EventNames ==
    {"CLOSE", "FOCUS"}

\* the argument list of the call whose result a call of m with the
\* argument list k gets: the work of a memoized method executes once per
\* instance, so it is the argument list of the first call of m, and k itself
\* when m has not been called
Slot(w, m, k) ==
    IF w.cache[m] # "none" THEN w.cache[m] ELSE k

\* the position of the promise that a call of m with k returns
Promise(w, m, k) ==
    w.call[m][Slot(w, m, k)]

\* @memoized: the cache has a result for a call of m with the argument
\* list k, and the call returns it
IsMemoized(w, m, k) ==
    Promise(w, m, k) # "none"

\* the position of a call that holds the pending promise of an earlier one
Waiting(m) ==
    CASE m = "close" -> "children"
      [] m = "closeComponent" -> "hide"
      [] OTHER -> "wait"

\* @memoized, cache hit: the call of m with k gets the promise of the call
\* that ran
Cached(w, m, k) ==
    IF w.call[m][k] # "none"
      THEN w
      ELSE [w EXCEPT !.call[m][k] =
                         IF Promise(w, m, k) \in {"done", "failed"}
                           THEN Promise(w, m, k)
                           ELSE Waiting(m)]

\* @memoized, cache miss: the call of m with k runs the method and its
\* result is cached
Cache(w, m, k) ==
    [w EXCEPT !.cache[m] = k]

\* the calls that hold the promise of another call settle with it
Follow(w) ==
    [w EXCEPT !.call =
        [m \in Memoized |-> [k \in Args |->
            IF /\ w.call[m][k] # "none"
               /\ Promise(w, m, k) \in {"done", "failed"}
              THEN Promise(w, m, k)
              ELSE w.call[m][k]]]]

\* this.event.trigger(name): the subscribers of on(name) are notified, at
\* every call
Trigger(w, name) ==
    IF name = "CLOSE" THEN [w EXCEPT !.obs.closeEvents = @ + 1] ELSE w

\* this.event.triggerOnce(EVENTS.CLOSE): the event is triggered the first
\* time triggerOnce is called with it
TriggerOnceClose(w) ==
    IF w.closeEvent
      THEN w
      ELSE Trigger([w EXCEPT !.closeEvent = TRUE], "CLOSE")

\* this.props.onClose(reason): the host's callback is invoked with reason
OnClose(w, reason) ==
    [w EXCEPT !.obs.onCloseCalls = Append(@, reason)]

\* hideComponent(): animateAndHide when there is an element
HideComponent(w) ==
    IF IsMemoized(w, "hideComponent", NoArgs)
      THEN w
      ELSE [Cache(w, "hideComponent", NoArgs) EXCEPT
               !.call["hideComponent"][NoArgs] =
                   IF w.element THEN "run" ELSE "done"]

\* hideContainer(): animateAndHide when there is a container
HideContainer(w) ==
    IF IsMemoized(w, "hideContainer", NoArgs)
      THEN w
      ELSE [Cache(w, "hideContainer", NoArgs) EXCEPT
               !.call["hideContainer"][NoArgs] =
                   IF w.container THEN "run" ELSE "done"]

\* destroyComponent()
DestroyComponent(w) ==
    CleanRun(CleanRun(CleanRun(CleanRun(w,
        "destroyUnloadWindowListener"),
        "destroyCloseWindowListener"),
        "destroyContainerEvents"),
        "destroyWindow")

\* destroyContainer(): the two cleanups are run by the first call
DestroyContainer(w) ==
    IF IsMemoized(w, "destroyContainer", NoArgs)
      THEN w
      ELSE [CleanRun(CleanRun(Cache(w, "destroyContainer", NoArgs),
                              "destroyContainerEvents"),
                     "destroyContainerTemplate") EXCEPT
               !.call["destroyContainer"][NoArgs] = "done"]

\* closeComponent after hideComponent: destroyComponent
CloseComponentEnd(w, k) ==
    [DestroyComponent(w) EXCEPT !.call["closeComponent"][k] = "done"]

\* closeComponent after props.onClose has returned: hideComponent, then the
\* rest once the element is hidden
CloseComponentResume(w, k) ==
    LET w1 == HideComponent(w)
    IN  IF w1.call["hideComponent"][NoArgs] = "done"
          THEN CloseComponentEnd(w1, k)
          ELSE [w1 EXCEPT !.call["closeComponent"][k] = "hide"]

\* closeComponent called with the argument list k: cancelContainerEvents,
\* the CLOSE event, props.onClose(reason); the rest follows once the host's
\* callback has returned
CloseComponent(w, k) ==
    IF IsMemoized(w, "closeComponent", k)
      THEN Cached(w, "closeComponent", k)
      ELSE LET w0 == Cache(w, "closeComponent", k)
               w1 == CleanRun(w0, "destroyContainerEvents")
           IN  [OnClose(TriggerOnceClose(w1), ReasonOf(k)) EXCEPT
                   !.call["closeComponent"][k] = "onClose"]

\* closeContainer after props.onClose has returned: closeComponent(reason)
\* and hideContainer() in parallel
CloseContainerResume(w, k) ==
    LET w1 == CloseComponent(w, ReasonOf(k))
        w2 == HideContainer(w1)
    IN  [w2 EXCEPT !.call["closeContainer"][k] = "wait"]

\* closeContainer called with the argument list k: the CLOSE event,
\* props.onClose(reason)
CloseContainer(w, k) ==
    IF IsMemoized(w, "closeContainer", k)
      THEN Cached(w, "closeContainer", k)
      ELSE LET w0 == Cache(w, "closeContainer", k)
           IN  [OnClose(TriggerOnceClose(w0), ReasonOf(k)) EXCEPT
                   !.call["closeContainer"][k] = "onClose"]

\* close after props.onClose has returned: closeComponent() and
\* closeContainer() in parallel, both without arguments
CloseResume(w, k) ==
    LET w1 == CloseComponent(w, NoArgs)
        w2 == CloseContainer(w1, NoArgs)
    IN  [w2 EXCEPT !.call["close"][k] = "children",
                   !.obs.closeSteps[k] = Append(@, "children")]

\* the body of close, run by the call with the argument list k and calling
\* props.onClose with reason
CloseBody(w, k, reason) ==
    LET w0 == Cache(w, "close", k)
    IN  [OnClose(TriggerOnceClose(w0), reason) EXCEPT
            !.call["close"][k] = "onClose",
            !.obs.closeRuns = @ + 1,
            !.obs.closeSteps[k] = Append(@, "onClose"),
            !.obs.closeAt[k] = Len(w.obs.onCloseCalls) + 1]

\* close called with the argument list k: the CLOSE event,
\* props.onClose(reason)
Close(w, k) ==
    LET w0 == [w EXCEPT !.obs.closeCalls = @ + 1]
    IN  IF IsMemoized(w0, "close", k)
          THEN Cached(w0, "close", k)
          ELSE CloseBody(w0, k, ReasonOf(k))

\* the closeComponent calls that wait for hideComponent go on once the
\* element is hidden
\* (the state is evaluated once, as the element of a set)
JoinComponent(w, k) ==
    CHOOSE r \in
      { IF /\ Slot(x, "closeComponent", k) = k
           /\ x.call["closeComponent"][k] = "hide"
           /\ x.call["hideComponent"][NoArgs] = "done"
          THEN CloseComponentEnd(x, k)
          ELSE x : x \in {w} } : TRUE

\* the ZalgoPromise.all of the closeContainer call k has settled:
\* destroyContainer()
\* (the state is evaluated once, as the element of a set)
JoinContainer(w, k) ==
    CHOOSE r \in
      { IF \/ Slot(x, "closeContainer", k) # k
           \/ x.call["closeContainer"][k] # "wait"
          THEN x
          ELSE IF Promise(x, "closeComponent", ReasonOf(k)) = "failed"
            THEN [x EXCEPT !.call["closeContainer"][k] = "failed"]
            ELSE IF /\ Promise(x, "closeComponent", ReasonOf(k)) = "done"
                    /\ x.call["hideContainer"][NoArgs] = "done"
              THEN [DestroyContainer(x) EXCEPT
                       !.call["closeContainer"][k] = "done"]
              ELSE x : x \in {w} } : TRUE

\* close that destroys as soon as closeComponent() has resolved
JoinCloseEarly(w, k) ==
    CHOOSE r \in
      { IF \/ Slot(x, "close", k) # k
           \/ x.call["close"][k] # "children"
          THEN x
          ELSE IF Promise(x, "closeComponent", NoArgs) = "failed"
            THEN [x EXCEPT !.call["close"][k] = "failed"]
            ELSE IF Promise(x, "closeComponent", NoArgs) = "done"
              THEN [Destroy(x) EXCEPT
                       !.call["close"][k] = "done",
                       !.obs.closeSteps[k] = Append(@, "destroy")]
              ELSE x : x \in {w} } : TRUE

\* the ZalgoPromise.all of the close call k has settled: destroy()
\* (the state is evaluated once, as the element of a set)
JoinClose(w, k) ==
    CHOOSE r \in
      { IF \/ Slot(x, "close", k) # k
           \/ x.call["close"][k] # "children"
          THEN x
          ELSE IF \/ Promise(x, "closeComponent", NoArgs) = "failed"
                  \/ Promise(x, "closeContainer", NoArgs) = "failed"
            THEN [x EXCEPT !.call["close"][k] = "failed"]
            ELSE IF /\ Promise(x, "closeComponent", NoArgs) = "done"
                    /\ Promise(x, "closeContainer", NoArgs) = "done"
              THEN [Destroy(x) EXCEPT
                       !.call["close"][k] = "done",
                       !.obs.closeSteps[k] = Append(@, "destroy")]
              ELSE x : x \in {w} } : TRUE

\* the .then handlers that run once a close promise has settled: those of
\* the closeComponent calls, then those of the closeContainer calls, then
\* those of the close calls; the calls that share a promise settle with it
Join(w) ==
    LET c1 == JoinComponent(w, NoArgs)
        c2 == JoinComponent(c1, ParentCall)
        c3 == JoinComponent(c2, "CHILD_CALL")
        c4 == JoinComponent(c3, "USER_CLOSED")
        t1 == JoinContainer(c4, NoArgs)
        t2 == JoinContainer(t1, ParentCall)
        t3 == JoinContainer(t2, "CHILD_CALL")
        t4 == JoinContainer(t3, "USER_CLOSED")
        l1 == JoinClose(t4, NoArgs)
        l2 == JoinClose(l1, ParentCall)
        l3 == JoinClose(l2, "CHILD_CALL")
    IN  Follow(JoinClose(l3, "USER_CLOSED"))

\* the callback of onCloseWindow with .then in the place of .finally:
\* destroy() only when props.onClose succeeded
DetectEndThen(w, ok) ==
    IF ok
      THEN [Destroy(w) EXCEPT !.detect = "done"]
      ELSE [w EXCEPT !.detect = "done", !.obs.detectThrew = TRUE]

\* the callback of onCloseWindow after props.onClose, which returned (ok)
\* or threw: finally, destroy()
DetectEnd(w, ok) ==
    [Destroy(w) EXCEPT !.detect = "done", !.obs.detectThrew = ~ok]

\* the callback of onCloseWindow in watchForClose:
\* props.onClose(CLOSE_DETECTED), then destroy()
DetectClose(w) ==
    [OnClose(w, "CLOSE_DETECTED") EXCEPT !.detect = "onClose"]

\* userClose()
UserClose(w) ==
    Close(w, "USER_CLOSED")

\* checkClose(win) that closes on the first answer whatever it is
CheckCloseFirstNoDelay(w, closed) ==
    [UserClose(w) EXCEPT
        !.check.pc = "done",
        !.check.first = IF closed THEN "closed" ELSE "open",
        !.check.userClose = "beforeDelay"]

\* checkClose(win): the handler of the first win.isClosed()
CheckCloseFirst(w, closed) ==
    IF closed
      THEN [UserClose(w) EXCEPT
               !.check.pc = "done", !.check.first = "closed",
               !.check.userClose = "beforeDelay"]
      ELSE [w EXCEPT !.check.pc = "delay", !.check.first = "open"]

\* checkClose(win) that drops the answer of the second win.isClosed()
CheckCloseSecondIgnored(w, closed) ==
    [w EXCEPT !.check.pc = "done",
              !.check.second = IF closed THEN "closed" ELSE "open"]

\* checkClose(win): the handler of the win.isClosed() made after the delay
CheckCloseSecond(w, closed) ==
    IF closed
      THEN [UserClose(w) EXCEPT
               !.check.pc = "done", !.check.second = "closed",
               !.check.userClose = "afterDelay"]
      ELSE [w EXCEPT !.check.pc = "done", !.check.second = "open"]

\* the host calls close(), or the remote side calls the close export with
\* its reason
CallClose(k) ==
    /\ obs.closeCalls + obs.otherCalls < MaxCloseCalls
    /\ Set(Join(Close(S, k)))

\* closeComponent is called on its own, with the argument list k
CallCloseComponent(k) ==
    /\ obs.closeCalls + obs.otherCalls < MaxCloseCalls
    /\ Set(Join(CloseComponent([S EXCEPT !.obs.otherCalls = @ + 1], k)))

\* closeContainer is called on its own, with the argument list k
CallCloseContainer(k) ==
    /\ obs.closeCalls + obs.otherCalls < MaxCloseCalls
    /\ Set(Join(CloseContainer([S EXCEPT !.obs.otherCalls = @ + 1], k)))

\* destroyContainer() is called on its own
CallDestroyContainer ==
    /\ obs.closeCalls + obs.otherCalls < MaxCloseCalls
    /\ ~IsMemoized(S, "destroyContainer", NoArgs)
    /\ Set(Join(DestroyContainer([S EXCEPT !.obs.otherCalls = @ + 1])))

\* the callers of props.onClose
OnCloseCallers ==
    {"close", "closeComponent", "closeContainer", "watchForClose"}

\* the host's onClose callback settles: it returned, or it threw; m is the
\* method that called it and k the argument list of that call
OnCloseReturns(m, k, ok) ==
    /\ m \in OnCloseCallers
    /\ IF m = "watchForClose" THEN detect = "onClose" /\ k = NoArgs
                              ELSE call[m][k] = "onClose"
    /\ Set(Join(
          IF m = "watchForClose" THEN DetectEnd(S, ok)
          ELSE IF ~ok THEN [S EXCEPT !.call[m][k] = "failed"]
          ELSE IF m = "close" THEN CloseResume(S, k)
          ELSE IF m = "closeComponent" THEN CloseComponentResume(S, k)
          ELSE CloseContainerResume(S, k)))

\* the remote side calls the trigger export with the name of an event
RemoteTrigger(name) ==
    /\ tasks["loadUrl"] \in {"run", "ok"}
    /\ name = "CLOSE" => obs.closeTriggers < MaxTriggers
    /\ Set([Trigger(S, name) EXCEPT
               !.obs.closeTriggers = IF name = "CLOSE" THEN @ + 1 ELSE @])

\* onCloseWindow finds the window closed and calls back, once
CloseDetected ==
    /\ closeWatch
    /\ detect = "none"
    /\ Set(Join(DetectClose(S)))

\* the onunload callback of watchForUnload: destroyComponent()
Onunload(w) ==
    [DestroyComponent(w) EXCEPT !.obs.unloads = @ + 1]

\* the host page unloads: the listener, while installed, calls the
\* callback, which once() lets run a single time
Unload ==
    /\ unloadWatch
    /\ obs.unloads = 0
    /\ Set(Join(Onunload(S)))

\* animateAndHide has hidden the element or the container
HideDone(m) ==
    /\ m \in {"hideComponent", "hideContainer"}
    /\ call[m][NoArgs] = "run"
    /\ Set(Join([S EXCEPT !.call[m][NoArgs] = "done"]))

\* the remote side calls the checkClose export: win.isClosed() is asked
CheckCloseCall ==
    /\ tasks["loadUrl"] \in {"run", "ok"}
    /\ check.pc \in {"none", "done"}
    /\ obs.checkCloses < MaxCheckCloses
    /\ Set([S EXCEPT !.check = [pc |-> "first", first |-> "none",
                                second |-> "none", delayed |-> FALSE,
                                userClose |-> "none"],
                     !.obs.checkCloses = @ + 1])

\* win.isClosed() answers
IsClosedReturns(closed) ==
    \/ /\ check.pc = "first"
       /\ Set(Join(CheckCloseFirst(S, closed)))
    \/ /\ check.pc = "second"
       /\ Set(Join(CheckCloseSecond(S, closed)))

\* ZalgoPromise.delay(200) resolves: win.isClosed() is asked again
DelayElapses ==
    /\ check.pc = "delay"
    /\ Set([S EXCEPT !.check.pc = "second", !.check.delayed = TRUE])

\* every task in progress completes, in the order of the graph (the
\* argument is evaluated once, as the element of a set)
RECURSIVE Complete(_)
CompleteFrom(w) ==
    LET R == {i \in 1..Len(TaskOrder) : w.tasks[TaskOrder[i]] = "run"}
    IN  IF R = {}
          THEN w
          ELSE Complete(Settle([w EXCEPT !.tasks[TaskOrder[Least(R)]] = "ok"],
                               TRUE))

Complete(w) ==
    CHOOSE r \in {CompleteFrom(x) : x \in {w}} : TRUE

\* the instance w after a render in which every step succeeded and the
\* remote side called init
\* (the state is evaluated once, as the element of a set)
RenderedFrom(w) ==
    CHOOSE r \in
      { [Complete(Settle(InitChildOp(Complete(RenderOp(x, "none"))), TRUE))
            EXCEPT !.renderP = "resolved"] : x \in {w} } : TRUE

\* the instance rendered and ready
Rendered ==
    RenderedFrom(Constructed)

\* the same for a host that called destroyContainer() before render
RenderedBare ==
    RenderedFrom(DestroyContainer(Constructed))

\* the instances close is studied on: constructed, or rendered and ready (a
\* component rendered into a container has a container template)
InitClose ==
    /\ context \in {"iframe", "popup"}
    /\ target = "window"
    /\ props = [timeout |-> 0, onError |-> TRUE]
    /\ containerTemplate \in BOOLEAN
    /\ RenderedIntoContainer => containerTemplate
    /\ \E w \in {Constructed, Rendered} : IsState(w)

NextClose ==
    \/ \E k \in CallArgs : CallClose(k)
    \/ \E m \in OnCloseCallers, k \in Args, ok \in BOOLEAN :
          OnCloseReturns(m, k, ok)
    \/ CloseDetected
    \/ Unload
    \/ \E m \in Memoized : HideDone(m)
    \/ CheckCloseCall
    \/ \E closed \in BOOLEAN : IsClosedReturns(closed)
    \/ DelayElapses

SpecClose ==
    InitClose /\ [][NextClose]_vars

\* the instances the memoized methods are studied on: constructed,
\* rendered, or rendered after destroyContainer()
InitMemo ==
    /\ context \in {"iframe", "popup"}
    /\ target = "window"
    /\ props = [timeout |-> 0, onError |-> TRUE]
    /\ containerTemplate \in BOOLEAN
    /\ RenderedIntoContainer => containerTemplate
    /\ \E w \in {Constructed, Rendered, RenderedBare} : IsState(w)

NextMemo ==
    \/ \E k \in CallArgs : CallClose(k)
    \/ \E k \in CallArgs : CallCloseComponent(k)
    \/ \E k \in CallArgs : CallCloseContainer(k)
    \/ CallDestroyContainer
    \/ \E m \in OnCloseCallers, k \in Args, ok \in BOOLEAN :
          OnCloseReturns(m, k, ok)
    \/ CloseDetected
    \/ \E m \in Memoized : HideDone(m)

SpecMemo ==
    InitMemo /\ [][NextMemo]_vars

\* the same with the remote side calling the trigger export
NextEvent ==
    \/ NextClose
    \/ \E name \in EventNames : RemoteTrigger(name)

SpecEvent ==
    InitClose /\ [][NextEvent]_vars

-----------------------------------------------------------------------------
(* the other instances and destroyAll *)

\* registerActiveComponent() of instance id
RegisterActiveComponent(w, id) ==
    [w EXCEPT !.activeComponents = Append(@, id),
              !.peers[id].clean = Append(@, "activeComponent")]

\* the constructor of instance id: with valid props the instance is
\* listed and watches for unload; when setProps throws, error() is called
\* and its destroy() finds no task
ConstructPeer(w, id, valid) ==
    LET w0 == [w EXCEPT !.peers[id].made = TRUE, !.peers[id].valid = valid]
        w1 == RegisterActiveComponent(w0, id)
    IN  IF valid
          THEN [w1 EXCEPT !.peers[id].clean =
                              Append(@, "destroyUnloadWindowListener")]
          ELSE w0

\* destroy() of instance id: clean.all() when its registry has tasks
PeerDestroy(w, id) ==
    LET c == w.peers[id].clean
    IN  IF c = << >>
          THEN w
          ELSE [w EXCEPT !.peers[id].clean = << >>,
                         !.peers[id].cleaned = TRUE,
                         !.activeComponents =
                             IF \E i \in 1..Len(c) : c[i] = "activeComponent"
                               THEN Splice(@, id) ELSE @]

\* destroyComponent() of instance id, which has opened nothing
PeerDestroyComponent(w, id) ==
    [w EXCEPT !.peers[id].clean =
        SelectSeq(@, LAMBDA x : x # "destroyUnloadWindowListener")]

\* destroy() of the instance at the head of the list
DestroyHead(w) ==
    IF Head(w.activeComponents) = 0
      THEN Destroy(w)
      ELSE PeerDestroy(w, Head(w.activeComponents))

\* destroyAll(): while the list is not empty, destroy() of its first
\* instance; a destroy() that leaves the list as it is repeats for ever
\* (the state is evaluated once, as the element of a set)
RECURSIVE DestroyAllLoop(_)
DestroyAllFrom(w) ==
    IF w.activeComponents = << >>
      THEN [w EXCEPT !.obs.destroyAll = "done"]
      ELSE IF DestroyHead(w).activeComponents = w.activeComponents
        THEN [w EXCEPT !.obs.destroyAll = "looping"]
        ELSE DestroyAllLoop(DestroyHead(w))

DestroyAllLoop(w) ==
    CHOOSE r \in {DestroyAllFrom(x) : x \in {w}} : TRUE

Construct(id, valid) ==
    /\ id \in 1..MaxPeers
    /\ ~peers[id].made
    /\ Set(ConstructPeer(S, id, valid))

\* a close or an error of instance id comes to its destroy()
PeerDestroys(id) ==
    /\ id \in 1..MaxPeers
    /\ peers[id].made
    /\ Set(PeerDestroy(S, id))

\* the page unloads for instance id
PeerUnload(id) ==
    /\ id \in 1..MaxPeers
    /\ \E i \in 1..Len(peers[id].clean) :
          peers[id].clean[i] = "destroyUnloadWindowListener"
    /\ Set(PeerDestroyComponent(S, id))

DestroyAll ==
    /\ obs.destroyAlls < MaxDestroyAlls
    /\ Set(DestroyAllLoop([S EXCEPT !.obs.destroyAlls = @ + 1]))

\* the instances destroyAll is studied with: this one constructed, or
\* rendered and ready; the others not yet constructed.  The host closes this
\* instance and the remote side reports an error once each (a repeated call
\* returns the cached promise, or returns at the errored guard)
InitAll ==
    /\ context \in {"iframe", "popup"}
    /\ target = "window"
    /\ props = [timeout |-> 0, onError |-> TRUE]
    /\ containerTemplate = TRUE
    /\ \E w \in {Constructed, Rendered} : IsState(w)

NextAll ==
    \/ \E id \in 1..MaxPeers, valid \in BOOLEAN : Construct(id, valid)
    \/ \E id \in 1..MaxPeers : PeerDestroys(id)
    \/ \E id \in 1..MaxPeers : PeerUnload(id)
    \/ DestroyAll
    \/ ~IsMemoized(S, "close", NoArgs) /\ CallClose(NoArgs)
    \/ \E m \in OnCloseCallers, k \in Args, ok \in BOOLEAN :
          OnCloseReturns(m, k, ok)
    \/ \E m \in Memoized : HideDone(m)
    \/ Unload
    \/ ~errored /\ RemoteError
    \/ \E destroyed \in BOOLEAN : ErrorNotify(destroyed)
    \/ \E ok \in BOOLEAN : OnErrorReturns(ok)

SpecAll ==
    InitAll /\ [][NextAll]_vars

-----------------------------------------------------------------------------
(* updateProps *)

\* the values a caller gives to a prop
PropValues ==
    {"a", "b"}

\* setProps(props, isUpdate): the props given are merged into this.props
SetProps(w, k, v) ==
    [w EXCEPT !.userProps[k] = v]

\* updateProps(props) with the prop k at value v
UpdateProps(w, k, v) ==
    UpdatePropsThen(
        [SetProps(w, k, v) EXCEPT
            !.updates = Append(@, [key |-> k, value |-> v, pc |-> "waiting",
                                   sent |-> << >>])])

UpdatePropsCall(k, v) ==
    /\ Len(updates) < MaxUpdates
    /\ Set(UpdateProps(S, k, v))

\* initChild(childExports) called without an export table
InitChildVoidOp(w) ==
    [InitChildOp(w) EXCEPT !.childExports = FALSE]

InitChildVoid ==
    /\ tasks["loadUrl"] \in {"run", "ok"}
    /\ ~childExports
    /\ onInit = "pending"
    /\ Set(Settle(InitChildVoidOp(S), TRUE))

\* the instance whose render has done all it can before the remote side
\* calls init
Loading ==
    Complete(RenderOp(Constructed, "none"))

\* the instances updateProps is studied on: constructed (to be rendered to
\* this window, or to a window under another top window), or loading
InitProps ==
    /\ context \in {"iframe", "popup"}
    /\ target \in {"window", "foreign"}
    /\ props = [timeout |-> 0, onError |-> TRUE]
    /\ containerTemplate = TRUE
    /\ \E w \in {Constructed, Loading} :
          /\ target = "foreign" => w = Constructed
          /\ IsState(w)

NextProps ==
    \/ \E k \in PropKeys, v \in PropValues : UpdatePropsCall(k, v)
    \/ \E elOk \in BOOLEAN, dom \in Domains : RenderTo(elOk, dom)
    \/ InitChild
    \/ InitChildVoid
    \/ RemoteError
    \/ \E destroyed \in BOOLEAN : ErrorNotify(destroyed)
    \/ \E ok \in BOOLEAN : OnErrorReturns(ok)

SpecProps ==
    InitProps /\ [][NextProps]_vars

-----------------------------------------------------------------------------
(* resize *)

\* the dimensions a caller asks for (numbers or strings)
Dimensions ==
    {"300x200", "400x300", "100%x100%"}

\* setOverflow(this.element, value): the style is set; the handle that is
\* returned resets the style to the value read at this call
SetOverflow(w, value) ==
    [w EXCEPT !.overflow = value,
              !.resizes = Append(@, [wait |-> TRUE, pc |-> "moving",
                                     saved |-> w.overflow,
                                     stopped |-> FALSE])]

\* resize(width, height, { waitForTransition })
Resize(w, dim, wait) ==
    LET w0 == [w EXCEPT !.size = dim]
    IN  IF ~wait \/ ~w0.element
          THEN [w0 EXCEPT !.resizes = Append(@, [wait |-> wait,
                                                 pc |-> "resolved",
                                                 saved |-> "none",
                                                 stopped |-> FALSE])]
          ELSE SetOverflow(w0, "hidden")

\* elementStoppedMoving(this.element) settles for call i: on success the
\* handle of that call resets the overflow, on a timeout nothing is reset
StoppedMovingOp(w, i, ok) ==
    IF ok
      THEN [w EXCEPT !.overflow = w.resizes[i].saved,
                     !.resizes[i].pc = "resolved",
                     !.resizes[i].stopped = TRUE]
      ELSE [w EXCEPT !.resizes[i].pc = "rejected"]

ResizeCall(dim, wait) ==
    /\ Len(resizes) < MaxResizes
    /\ Set(Resize(S, dim, wait))

StoppedMoving(i, ok) ==
    /\ i \in 1..Len(resizes)
    /\ resizes[i].pc = "moving"
    /\ Set(StoppedMovingOp(S, i, ok))

\* the instances resize is studied on: constructed, or rendered and ready
InitResize ==
    /\ context \in {"iframe", "popup"}
    /\ target = "window"
    /\ props = [timeout |-> 0, onError |-> TRUE]
    /\ containerTemplate = TRUE
    /\ \E w \in {Constructed, Rendered} : IsState(w)

NextResize ==
    \/ \E dim \in Dimensions, wait \in BOOLEAN : ResizeCall(dim, wait)
    \/ \E i \in 1..MaxResizes, ok \in BOOLEAN : StoppedMoving(i, ok)

SpecResize ==
    InitResize /\ [][NextResize]_vars

-----------------------------------------------------------------------------
(* Claims checked under Spec *)

\* task t has begun: its body was entered
Begun(t) ==
    tasks[t] \in {"run", "ok", "fail"}

\* C2: first error wins. Once errored, no step clears errored, changes the
\* error being handled, re-settles the readiness signal, runs the destroy()
\* of error() again, or makes a second onError call; and every onError call
\* the host sees carries the first error.
C2_FirstErrorWins ==
    [][errored =>
         /\ errored'
         /\ firstErr' = firstErr
         /\ onInit' = onInit
         /\ onInitErr' = onInitErr
         /\ obs'.errDestroys = obs.errDestroys
         /\ Len(obs'.onError) <= 1
         /\ \A i \in 1..Len(obs'.onError) : obs'.onError[i].err = firstErr]_vars

\* an error() call with another error arrived after the first
C2_Witness ==
    /\ errored
    /\ \E e \in obs.lateErr : e # firstErr
    /\ errPc = "done"

\* C3: when onError is invoked, errored is set, the readiness signal is
\* settled, and the destroy() of error() has completed: what the constructor
\* registered for cleanup has been released.
C3_TeardownBeforeOnError ==
    Len(obs.onError) > 0 =>
        /\ errored
        /\ onInit # "pending"
        /\ obs.errDestroys = 1
        /\ ~active
        /\ ~unloadWatch

\* onError has been invoked on an instance whose render had opened a window
C3_Witness ==
    /\ Len(obs.onError) = 1
    /\ onInit = "rejected"
    /\ Begun("open")
    /\ ~windowOpen

\* C4: how the first error() call settles: resolved when onError is supplied
\* and returns; rejected with the original err when no onError is supplied;
\* rejected with the wrapping error when onError throws.
C4_ErrorOutcome ==
    errPc = "done" =>
        IF props.onError
          THEN \A i \in 1..Len(obs.onError) :
                 /\ obs.onError[i].result = "threw" => errResult = "wrapped"
                 /\ obs.onError[i].result = "returned" =>
                       errResult = "resolved"
          ELSE /\ obs.onError = << >>
               /\ errResult = "original"

\* C5: setWindowName begins only once open and getDomain have resolved;
\* switchPrerender begins only once prerender and this.onInit have resolved.
C5_Ordering ==
    /\ Begun("setWindowName") =>
           tasks["open"] = "ok" /\ tasks["getDomain"] = "ok"
    /\ Begun("switchPrerender") =>
           tasks["prerender"] = "ok" /\ onInit = "resolved"

\* both steps have begun
C5_Witness ==
    Begun("setWindowName") /\ Begun("switchPrerender")

\* C9: an instance that received init before the timer fired is never
\* failed by the load timeout: the timer does not fire.
C9_InitCancelsTimeout ==
    initBeforeFire => timer # "fired" /\ firstErr # "timeout"

\* C10: once destroy() has run the registry, global.windows and global.props
\* hold no entry of the instance, also when destroy() was reached through
\* an error while the render was in flight.
C10_RegistryHygiene ==
    cleaned => globalWindows = {} /\ globalProps = {}

\* C16: when a step of the render graph has failed, the promise returned by
\* render() is not resolved, whether the failure came before or after the
\* remote side called init
C16_FailureRejects ==
    (\E t \in Tasks : tasks[t] = "fail") => renderP # "resolved"

\* C18: onEnter is invoked only once every step of the graph has resolved,
\* and the promise returned by render() resolves only once every step has
\* resolved, the remote side has called init and onEnter has returned
C18_RenderResolvesLast ==
    /\ renderP \in {"onEnter", "resolved"} =>
          /\ \A t \in Tasks : tasks[t] = "ok"
          /\ onInit = "resolved"
          /\ obs.onEnter = 1
    /\ obs.onEnter > 0 => renderP # "pending"

\* C24: a step of the render begins only once the steps it is chained on
\* have resolved: openContainer after elementReady; open after
\* openContainer when the driver renders into a container; showContainer
\* after openContainer; watchForClose after awaitWindow and setWindowName;
\* prerender after open and openContainer; showComponent after prerender;
\* openBridge after awaitWindow, getDomain and setWindowName; loadUrl
\* after open, buildUrl and setWindowName; runTimeout after loadUrl
C24_DependenciesFirst ==
    /\ Begun("openContainer") => tasks["elementReady"] = "ok"
    /\ Begun("open") /\ RenderedIntoContainer =>
          tasks["openContainer"] = "ok"
    /\ Begun("showContainer") => tasks["openContainer"] = "ok"
    /\ Begun("watchForClose") =>
          tasks["awaitWindow"] = "ok" /\ tasks["setWindowName"] = "ok"
    /\ Begun("prerender") =>
          tasks["open"] = "ok" /\ tasks["openContainer"] = "ok"
    /\ Begun("showComponent") => tasks["prerender"] = "ok"
    /\ Begun("openBridge") =>
          /\ tasks["awaitWindow"] = "ok"
          /\ tasks["getDomain"] = "ok"
          /\ tasks["setWindowName"] = "ok"
    /\ Begun("loadUrl") =>
          /\ tasks["open"] = "ok"
          /\ tasks["buildUrl"] = "ok"
          /\ tasks["setWindowName"] = "ok"
    /\ Begun("runTimeout") => tasks["loadUrl"] = "ok"

\* an iframe render in which the steps with dependencies have all run
C24_Witness ==
    /\ context = "iframe"
    /\ \A t \in {"openContainer", "open", "showContainer", "watchForClose",
                  "prerender", "showComponent", "openBridge", "loadUrl",
                  "runTimeout"} : tasks[t] = "ok"
    /\ ~errored

\* C25: once destroy() has run clean.all(), no step of the render that is
\* still in flight opens a window or attaches a container (whose cleanup
\* would then be registered on the emptied registry), and the destroyed
\* instance has no window, no container and no cleanup task left
C25_NoWorkAfterDestroy ==
    /\ obs.lateRegs \cap {"destroyWindow", "destroyContainerTemplate"} = {}
    /\ cleaned => ~windowOpen /\ ~container /\ ~HasTasks(S)

-----------------------------------------------------------------------------
(* Claims checked under SpecRenderTo *)

\* C11: a renderTo to a window under another top window, or to a window of
\* another domain when the component's domain is not this window's origin,
\* fails before anything is opened: render is not entered, open is not
\* called, no delegation message is sent, and (the element being a string)
\* the error is the one of the test that failed.
C11_RemoteRenderGuard ==
    \A i \in 1..Len(obs.renderTo) :
        LET dom == obs.renderTo[i].dom
            elOk == obs.renderTo[i].elOk
        IN  target = "foreign" \/ (target = "cross" /\ dom = "other") =>
               /\ ~rendered
               /\ ~Begun("open")
               /\ ~windowOpen
               /\ delegate = "none"
               /\ errored
               /\ onInit = "rejected"
               /\ renderP = "rejected"
               /\ elOk /\ target = "foreign" => firstErr = "adjacentFrame"
               /\ elOk /\ target = "cross" => firstErr = "remoteDomain"

\* a renderTo to a window of another domain was refused, the component's
\* domain not being this window's origin
C11_Witness ==
    /\ target = "cross"
    /\ obs.renderTo = << [elOk |-> TRUE, dom |-> "other"] >>
    /\ firstErr = "remoteDomain"
    /\ errPc = "done"

\* C23: after delegate(target) a method the driver marks as delegate calls
\* no override before the delegation has succeeded; once it has, a call of
\* the method calls the override of the same name; when the delegation
\* has failed the call fails with the error 'Unable to delegate rendering';
\* the other methods run locally, and without a delegation all do
C23_DelegateStubs ==
    /\ obs.overridden # {} => delegate = "resolved"
    /\ obs.stubErrors # {} => delegate = "rejected"
    /\ obs.overridden \cup obs.stubErrors \subseteq DelegateOverrides
    /\ \A t \in DelegateOverrides :
          /\ delegate = "resolved" => (t \in obs.overridden <=> Begun(t))
          /\ delegate = "rejected" /\ Begun(t) =>
                tasks[t] = "fail" /\ t \in obs.stubErrors
    /\ delegate # "none" /\ "open" \in DelegateOverrides =>
          ~windowOpen /\ ~container
    /\ delegate # "none" /\ "open" \notin DelegateOverrides
          /\ tasks["open"] = "ok" /\ ~cleaned => windowOpen

\* an iframe render delegated to a same-domain frame: the delegation has
\* succeeded, open and loadUrl went to the overrides and nothing was opened
\* locally
C23_Witness ==
    /\ context = "iframe"
    /\ delegate = "resolved"
    /\ {"open", "loadUrl", "showComponent"} \subseteq obs.overridden
    /\ tasks["loadUrl"] = "ok"
    /\ ~windowOpen

-----------------------------------------------------------------------------
(* Claims checked under FairSpec *)

\* C8 as stated: with a timeout configured and no init from the remote
\* side, the timer started after loadUrl eventually fires and the instance
\* becomes errored with the timeout error.
C8_TimeoutFails ==
    (timer = "armed") ~> (childExports \/ (errored /\ firstErr = "timeout"))

\* C8 as amended: no timer without a configured timeout; with one, runTimeout
\* starts it; a started timer eventually fires unless it is cleared first
\* (by init, or by the cleanup that destroy() runs); when it fires, error()
\* is called with the timeout error, which is the instance's error unless
\* the instance was errored already.
C8_TimeoutAmended ==
    /\ [](props.timeout = 0 => timer = "none")
    /\ [](tasks["runTimeout"] = "ok" /\ props.timeout > 0 => timer # "none")
    /\ (timer = "armed") ~> (timer \in {"fired", "cleared"})
    /\ [](timer = "fired" =>
            /\ errored
            /\ firstErr = "timeout" \/ "timeout" \in obs.lateErr)

\* the timer fired with no init received and failed the instance
C8_Witness ==
    /\ timer = "fired"
    /\ ~childExports
    /\ errored
    /\ firstErr = "timeout"
    /\ tasks["loadUrl"] = "ok"

\* C17: once a step of the render graph has failed, error() is eventually
\* entered (errored is set) and the Cleanup Registry has been fully run
C17_FailuresConverge ==
    (\E t \in Tasks : tasks[t] = "fail") ~> (errored /\ cleaned)

-----------------------------------------------------------------------------
(* Claims checked under SpecClose *)

\* a call of method m has been made / has resolved, whatever its arguments
Called(m) ==
    \E k \in Args : call[m][k] # "none"

Done(m) ==
    \E k \in Args : call[m][k] = "done"

\* C6: when the first isClosed() reports not closed, userClose is not
\* triggered before the delay has elapsed, and is triggered once the check
\* made after the delay reports closed.
C6_Debounce ==
    check.first = "open" =>
        /\ check.userClose # "none" =>
              check.delayed /\ check.second = "closed"
        /\ check.second = "closed" =>
              /\ check.userClose = "afterDelay"
              /\ IsMemoized(S, "close", "USER_CLOSED")
              /\ obs.closeCalls >= 1

\* not closed, then closed after the delay, on an instance not closed so far
C6_Witness ==
    /\ check.first = "open"
    /\ check.second = "closed"
    /\ check.userClose = "afterDelay"
    /\ obs.closeAt["USER_CLOSED"] > 0

\* C7 as stated: userClose is triggered only when both checks report closed.
C7_BothChecks ==
    check.userClose # "none" =>
        check.first = "closed" /\ check.second = "closed"

\* C7 as amended: a closed result on the first check triggers userClose at
\* once and no second check is made; otherwise the check made after the
\* delay decides; two not-closed results trigger nothing.
C7_EitherCheck ==
    /\ check.first = "closed" =>
          /\ check.userClose = "beforeDelay"
          /\ check.second = "none"
          /\ ~check.delayed
          /\ IsMemoized(S, "close", "USER_CLOSED")
    /\ check.pc = "done" =>
          (check.userClose # "none" <=>
               check.first = "closed" \/ check.second = "closed")

\* a closed result on the first check alone triggered the user close
C7_Witness ==
    /\ check.pc = "done"
    /\ check.first = "closed"
    /\ check.second = "none"
    /\ obs.closeAt["USER_CLOSED"] > 0

\* C14: when close(reason) is the one path on which props.onClose is called
\* (closeComponent and closeContainer are not called from outside and the
\* close watchdog has detected nothing), every call of props.onClose is
\* made with the reason given to the close that ran
C14_CloseReason ==
    obs.otherCalls = 0 /\ detect = "none" =>
        \A k \in Args :
            obs.closeAt[k] > 0 =>
                \A i \in 1..Len(obs.onCloseCalls) :
                    obs.onCloseCalls[i] = ReasonOf(k)

\* C19: when the close watchdog has detected the closed window, onClose
\* has been called with CLOSE_DETECTED; destroy() runs after that call has
\* settled, whether it returned or threw; error() is not entered and
\* onError is not called
C19_CloseWatchdog ==
    detect # "none" =>
        /\ \E i \in 1..Len(obs.onCloseCalls) :
               obs.onCloseCalls[i] = "CLOSE_DETECTED"
        /\ detect = "onClose" /\ ~Done("close") =>
               obs.allRuns = 0 /\ HasTasks(S)
        /\ detect = "done" => ~HasTasks(S) /\ ~closeWatch /\ ~active
        /\ ~errored /\ errPc = "none" /\ obs.onError = << >>

\* the watchdog detected the closed window of a rendered instance, the
\* host's onClose got CLOSE_DETECTED and threw, and the instance was
\* destroyed all the same
C19_Witness ==
    /\ detect = "done"
    /\ obs.detectThrew
    /\ obs.onCloseCalls = << "CLOSE_DETECTED" >>
    /\ rendered /\ cleaned /\ obs.allRuns = 1
    /\ ~Called("close")

\* C20: the unload handler runs at most once, calls onClose not at all,
\* and once it has run the instance is destroyed: no task is left in the
\* Cleanup Registry, the instance is no longer among the active components
\* and its Global Registry entries are deleted
C20_UnloadDestroys ==
    /\ obs.unloads <= 1
    /\ obs.unloads = 1 =>
          /\ ~HasTasks(S)
          /\ ~active
          /\ globalWindows = {} /\ globalProps = {}
          /\ (/\ detect = "none"
              /\ \A m \in {"close", "closeComponent", "closeContainer"} :
                    ~Called(m))
                => obs.onCloseCalls = << >>

\* the tasks of sequence s that clean.all() has run, in the order of s
RunByAll(s, order) ==
    SelectSeq(s, LAMBDA x : \E i \in 1..Len(order) : order[i] = x)

-----------------------------------------------------------------------------
(* Claims checked under SpecMemo *)

\* C1: whatever the number of close() calls and the reasons they pass
\* (nothing but close being called from outside, and the close watchdog
\* having detected nothing), once a call has settled the host's onClose
\* callback has been invoked exactly once, the body of close has run once
\* (every call got the promise of the first), clean.all() has run exactly
\* once when close completed and never more than once, and the calls that
\* have settled have settled alike.
C1_CloseOnce ==
    (/\ \E k \in Args : call["close"][k] \in {"done", "failed"}
     /\ obs.otherCalls = 0
     /\ detect = "none") =>
        /\ Len(obs.onCloseCalls) = 1
        /\ obs.closeRuns = 1
        /\ obs.allRuns <= 1
        /\ Done("close") => obs.allRuns = 1
        /\ \A k1, k2 \in Args :
              /\ call["close"][k1] \in {"done", "failed"}
              /\ call["close"][k2] \in {"done", "failed"}
              => call["close"][k1] = call["close"][k2]

\* C13: close(reason) triggers the CLOSE event and calls onClose first;
\* closeComponent and closeContainer are started, together, only once that
\* onClose has returned; destroy() starts only when both have resolved
C13_CloseOrder ==
    /\ \A k \in Args :
          LET steps == obs.closeSteps[k]
              n == Len(steps)
          IN  /\ steps = SubSeq(<< "onClose", "children", "destroy" >>, 1, n)
              /\ (n = 0) = (\/ call["close"][k] = "none"
                             \/ Slot(S, "close", k) # k)
              /\ n >= 1 => closeEvent /\ obs.onCloseCalls # << >>
              /\ call["close"][k] = "onClose" => n = 1
              /\ n >= 2 => /\ IsMemoized(S, "closeComponent", NoArgs)
                           /\ IsMemoized(S, "closeContainer", NoArgs)
              /\ n = 3 => /\ Promise(S, "closeComponent", NoArgs) = "done"
                          /\ Promise(S, "closeContainer", NoArgs) = "done"
                          /\ ~HasTasks(S)
    /\ (\A k \in Args : Len(obs.closeSteps[k]) < 3) /\ detect # "done" =>
          obs.allRuns = 0

\* close has run to its end on a rendered instance whose element and
\* container had to be hidden
C13_Witness ==
    /\ obs.closeSteps[NoArgs] = << "onClose", "children", "destroy" >>
    /\ call["hideComponent"][NoArgs] = "done"
    /\ call["hideContainer"][NoArgs] = "done"
    /\ element /\ cleaned
    /\ detect = "none"

-----------------------------------------------------------------------------
(* Claims checked under SpecEvent *)

\* C15: over close, closeContainer, closeComponent, checkClose and the
\* detections of the close watchdog (the remote side not triggering the
\* event itself through the trigger export) the subscribers of on(CLOSE)
\* are never notified more than once, and they have been notified once when
\* the instance has terminated, be it through close() or through a
\* detection of the close watchdog
C15_CloseEventOnce ==
    obs.closeTriggers = 0 =>
        /\ obs.closeEvents <= 1
        /\ Done("close") \/ detect = "done" => obs.closeEvents = 1

-----------------------------------------------------------------------------
(* Claims checked under SpecResize *)

\* C12: a resize without waitForTransition resolves right after the
\* driver resize; with it and an element, the call resolves only after the
\* element stopped moving, the overflow is hidden while the call is in
\* progress, and it is back to its value once the calls have resolved
C12_ResizeOverflow ==
    /\ \A i \in 1..Len(resizes) :
          /\ ~resizes[i].wait => resizes[i].pc = "resolved"
          /\ resizes[i].pc = "resolved" /\ resizes[i].saved # "none" =>
                resizes[i].stopped
          /\ resizes[i].pc = "moving" => overflow = "hidden"
    /\ (\A i \in 1..Len(resizes) : resizes[i].pc = "resolved") =>
          overflow = "visible"

-----------------------------------------------------------------------------
(* Claims checked under SpecProps *)

\* C22: updateProps merges the props into this.props at once; the remote
\* updateProps is called only when init has been received, with the props
\* not marked sendToChild false and no other; the update fails when the
\* readiness signal was rejected or resolved without an export table
C22_UpdateProps ==
    /\ \A k \in PropKeys :
          LET U == {i \in 1..Len(updates) : updates[i].key = k}
          IN  userProps[k] =
                IF U = {} THEN "initial"
                ELSE updates[CHOOSE i \in U : \A j \in U : j <= i].value
    /\ \A i \in 1..Len(updates) :
          /\ updates[i].pc = "waiting" <=> onInit = "pending"
          /\ updates[i].pc = "sent" =>
                /\ onInit = "resolved" /\ childExports
                /\ DOMAIN updates[i].sent = {"label", "extra"}
          /\ updates[i].pc # "sent" => updates[i].sent = << >>
          /\ onInit = "rejected" => updates[i].pc = "rejected"
          /\ onInit = "resolved" /\ ~childExports =>
                updates[i].pc = "noExports"

\* an update of the prop marked sendToChild false was made before init
\* and forwarded on init without that prop, and a later one of a sent prop
\* was forwarded at once
C22_Witness ==
    /\ Len(updates) = 2
    /\ updates[1].key = "secret" /\ updates[1].pc = "sent"
    /\ updates[1].sent = [label |-> "initial", extra |-> "initial"]
    /\ updates[2].key = "label" /\ updates[2].pc = "sent"
    /\ updates[2].sent = [label |-> "b", extra |-> "initial"]
    /\ userProps["secret"] = "a"

-----------------------------------------------------------------------------
(* Claims checked under SpecAll *)

\* C26: activeComponents lists, once each, the instances that were
\* constructed with success and whose clean.all() has not run; a listed
\* instance has a cleanup task left; and a destroyAll() comes to its end
\* with the list empty
C26_ActiveComponents ==
    /\ [](/\ (IndexOf(activeComponents, 0) # 0) = ~cleaned
          /\ IndexOf(activeComponents, 0) # 0 => HasTasks(S)
          /\ \A id \in 1..MaxPeers :
                IndexOf(activeComponents, id) # 0 => peers[id].clean # << >>
          /\ \A id \in 1..MaxPeers :
                (IndexOf(activeComponents, id) # 0) =
                   (peers[id].made /\ peers[id].valid /\ ~peers[id].cleaned)
          /\ \A i, j \in 1..Len(activeComponents) :
                activeComponents[i] = activeComponents[j] => i = j
          /\ obs.destroyAll # "looping")
    /\ [][obs'.destroyAlls # obs.destroyAlls =>
             obs'.destroyAll = "done" /\ activeComponents' = << >>]_vars

\* destroyAll() has come to its end: every instance was constructed and
\* is destroyed, this one after its unload handler had run and without a
\* close or an error, and the list is empty
C26_Witness ==
    /\ obs.destroyAll = "done"
    /\ activeComponents = << >>
    /\ obs.unloads = 1 /\ ~Called("close") /\ ~errored
    /\ cleaned
    /\ \A id \in 1..MaxPeers : peers[id].made /\ peers[id].cleaned

=============================================================================
